---- MODULE Spec2Model ----
(***************************************************************************)
(* The time-stepped execution loop of revolve2's MuJoCo simulator          *)
(* (simulate_scene), the custom viewer's render, and the callback phases.  *)
(*                                                                         *)
(* Simulated time is exact: every duration (simulation_timestep,           *)
(* control_step, sample_step, 1/fps, simulation_time) is a whole number of *)
(* one common time unit, so data.time is an integer number of units and    *)
(* math.floor(t / c) * c is (t \div c) * c.  Floating-point rounding of    *)
(* data.time is outside the model.                                         *)
(***************************************************************************)
EXTENDS Integers, Sequences, FiniteSets, TLC

\* Bounds of the model (time units).
MaxCadence == 3
MaxDt == 3
MaxTime == 6
MaxTicks == 3
MaxCallbacks == 2
MaxCpgs == 3
MaxConnections == 2
MaxValue == 2
MaxWeight == 1

\* Python's None and an optional value.
None == <<>>
Some(x) == <<x>>
Val(o) == o[1]

\* The elements of a list.
Range(s) == {s[i] : i \in DOMAIN s}

\* The members of the Callback enum.
Callback ==
    {"START", "RENDER_START", "PRE_STEP", "PRE_CONTROL", "RENDER",
     "POST_CONTROL", "POST_STEP", "RENDER_END", "END"}

\* The ViewerType members simulate_scene matches on.
ViewerType == {"CUSTOM", "NATIVE"}

\* The keys of the camera type dict of the offscreen recording camera.
CameraTypes == {"free", "tracking", "fixed", "user"}

VARIABLES
    \* arguments of simulate_scene
    headless, record_settings, viewer_type, start_paused,
    control_step, sample_step, simulation_time, simulation_timestep,
    \* record_settings.camera_type
    camera_type,
    \* the viewer contract's can_record of the native viewer
    native_can_record,
    \* position in simulate_scene and the exception it propagated, if any
    pc, error,
    \* data.time, the loop's local `time`, the three phase anchors
    data_time, time, last_control_time, last_sample_time, last_video_time,
    video_step,
    \* simulation_states: the samples appended, each with the time it was taken
    simulation_states,
    \* the times at which scene.handler.handle was invoked
    handle_times,
    \* number of mj_step calls, number of video.write calls
    nsteps, frames,
    \* how often each callback phase was fired
    fired,
    \* the viewer (window) and the video writer
    viewer, video,
    \* _status of the last viewer.render call
    status,
    \* simulation_states at the moment the loop was left by `break`
    states_at_cancel,
    \* Simulator._callbacks: for each phase the list of registered callbacks,
    \* each callback named by its registration number
    callbacks,
    \* the callbacks invoked so far, <<phase, callback>>, in order
    invoked,
    \* what happened since the loop condition was last evaluated, in order
    events,
    \* CpgNetworkStructure.cpgs and .connections
    cpgs, connections,
    \* the arguments of the last CpgPair(cpg_1, cpg_2) and the pair it built
    cpg_a, cpg_b, pair,
    \* the argument of the last make_uniform_state(value) and its result
    uniform_value, uniform_state,
    \* the result of the last make_connection_weights_matrix call
    weight_matrix

config ==
    <<headless, record_settings, viewer_type, start_paused, control_step,
      sample_step, simulation_time, simulation_timestep, native_can_record,
      camera_type>>

\* The variables of the CPG network structure.
cpg_vars ==
    <<cpgs, connections, cpg_a, cpg_b, pair, uniform_value, uniform_state,
      weight_matrix>>

\* The variables of a run of simulate_scene.
sim_vars ==
    <<config, pc, error, data_time, time, last_control_time,
      last_sample_time, last_video_time, video_step, simulation_states,
      handle_times, nsteps, frames, fired, viewer, video, status,
      states_at_cancel, callbacks, invoked, events>>

vars ==
    <<headless, record_settings, viewer_type, start_paused, control_step,
      sample_step, simulation_time, simulation_timestep, native_can_record,
      camera_type, cpgs, connections, cpg_a, cpg_b, pair, uniform_value,
      uniform_state, weight_matrix, pc, error, data_time, time, last_control_time,
      last_sample_time, last_video_time, video_step, simulation_states, handle_times, nsteps,
      frames, fired, viewer, video, status, states_at_cancel, callbacks,
      invoked, events>>

\* offscreen_render = (headless and record_settings is not None)
offscreen_render == headless /\ record_settings # None

NoViewer ==
    [constructed |-> FALSE, is_alive |-> FALSE, window_should_close |-> FALSE,
     paused |-> FALSE, close_count |-> 0, close_viewer_calls |-> 0,
     render_calls |-> 0]

\* The arguments a run is started with.
InitArgs ==
    /\ headless \in BOOLEAN
    /\ record_settings \in {None} \cup {Some(p) : p \in 1..MaxCadence}
    /\ viewer_type \in ViewerType
    /\ start_paused \in BOOLEAN
    /\ native_can_record \in BOOLEAN
    \* arguments that are never read in a mode are fixed
    /\ headless => viewer_type = "CUSTOM" /\ ~start_paused
    /\ (headless \/ viewer_type = "CUSTOM" \/ record_settings = None)
          => ~native_can_record
    /\ control_step \in {None} \cup {Some(c) : c \in 1..MaxCadence}
    /\ sample_step \in {None} \cup {Some(c) : c \in 1..MaxCadence}
    /\ simulation_time \in {None} \cup {Some(t) : t \in 0..MaxTime}
    /\ simulation_timestep \in 1..MaxDt
    /\ camera_type = None

\* No CPG network structure has been built.
InitCpgNone ==
    /\ cpgs = <<>>
    /\ connections = {}
    /\ cpg_a = None
    /\ cpg_b = None
    /\ pair = None
    /\ uniform_value = None
    /\ uniform_state = None
    /\ weight_matrix = None

\* The state on entry to simulate_scene.
InitRun ==
    /\ pc = "start"
    /\ error = None
    /\ data_time = 0
    /\ time = 0
    /\ last_control_time = 0
    /\ last_sample_time = 0
    /\ last_video_time = 0
    /\ video_step = None
    /\ simulation_states = <<>>
    /\ handle_times = <<>>
    /\ nsteps = 0
    /\ frames = 0
    /\ fired = [p \in Callback |-> 0]
    /\ viewer = NoViewer
    /\ video = "none"
    /\ status = None
    /\ states_at_cancel = None
    /\ callbacks = [p \in Callback |-> <<>>]
    /\ invoked = <<>>
    /\ events = <<>>
    /\ InitCpgNone

Init == InitArgs /\ InitRun


\* A run has ended: simulate_scene returned, or propagated an exception.
Exited == pc \in {"done", "raised"}

\* for cb in callbacks[phase]: cb(...)
\* (Fire_AlsoRender: the RENDER callbacks are fired along with the phase.)
Fire_AlsoRender(f, phase) ==
    [g \in Callback |->
        IF g = phase \/ g = "RENDER" THEN f[g] + 1 ELSE f[g]]

Fire(f, phase) == [f EXCEPT ![phase] = @ + 1]

\* The calls that loop makes: every callback of the phase's list, in list
\* order.  (Invoke_Reversed: the list is walked backwards.)
Invoke_Reversed(log, phase) ==
    log \o [i \in 1..Len(callbacks[phase]) |->
               <<phase, callbacks[phase][Len(callbacks[phase]) + 1 - i]>>]

Invoke(log, phase) ==
    log \o [i \in 1..Len(callbacks[phase]) |-> <<phase, callbacks[phase][i]>>]

\* Simulator.register_callback: self._callbacks[ctype].append(callback).
\* (register_callback_Prepend: the callback is put in front.)
register_callback_Prepend(cbs, ctype, callback) ==
    [cbs EXCEPT ![ctype] = <<callback>> \o @]

register_callback(cbs, ctype, callback) ==
    [cbs EXCEPT ![ctype] = Append(@, callback)]

\* sample(log): a SimulationState of the current data, appended when log is set.
\* `kind` records which statement took the sample.
\* (sample_Prepend: the sample is inserted at the front;
\* sample_Always: the sample is appended whatever `log` says;
\* sample_AfterStep: the sample shows the state one timestep later.)
sample_AfterStep(states, log, kind) ==
    IF log
       THEN Append(states, [time |-> data_time + simulation_timestep,
                            kind |-> kind])
       ELSE states

sample_Always(states, log, kind) ==
    Append(states, [time |-> data_time, kind |-> kind])

sample_Prepend(states, log, kind) ==
    IF log THEN <<[time |-> data_time, kind |-> kind]>> \o states ELSE states

sample(states, log, kind) ==
    IF log THEN Append(states, [time |-> data_time, kind |-> kind]) ELSE states

\* control(): PRE_CONTROL callbacks, scene.handler.handle(sample(), ...),
\* POST_CONTROL callbacks.  The handler may raise.
\* (control_PostFirst: the POST_CONTROL callbacks run before the handler;
\* control_Twice: a second dispatch makes up for a skipped period;
\* control_Stale: the handler is given the state one timestep later;
\* control_Logs: the sample built for the handler is appended.)
control_Logs(handler_raises, next_pc) ==
    /\ handle_times' = Append(handle_times, data_time)
    /\ simulation_states' = sample(simulation_states, TRUE, "control")
    /\ fired' = Fire(Fire(fired, "PRE_CONTROL"), "POST_CONTROL")
    /\ invoked' = Invoke(Invoke(invoked, "PRE_CONTROL"), "POST_CONTROL")
    /\ events' = events \o <<"PRE_CONTROL", "handle", "POST_CONTROL">>
    /\ pc' = IF handler_raises THEN "raised" ELSE next_pc
    /\ error' = IF handler_raises THEN Some("HandlerError") ELSE error

control_Stale(handler_raises, next_pc) ==
    /\ handle_times' = Append(handle_times, data_time + simulation_timestep)
    /\ simulation_states' = sample(simulation_states, FALSE, "control")
    /\ fired' = Fire(Fire(fired, "PRE_CONTROL"), "POST_CONTROL")
    /\ invoked' = Invoke(Invoke(invoked, "PRE_CONTROL"), "POST_CONTROL")
    /\ events' = events \o <<"PRE_CONTROL", "handle", "POST_CONTROL">>
    /\ pc' = IF handler_raises THEN "raised" ELSE next_pc
    /\ error' = IF handler_raises THEN Some("HandlerError") ELSE error

control_Twice(handler_raises, next_pc) ==
    /\ handle_times' = handle_times \o <<data_time, data_time>>
    /\ simulation_states' = sample(simulation_states, FALSE, "control")
    /\ fired' = Fire(Fire(Fire(Fire(fired, "PRE_CONTROL"), "POST_CONTROL"),
                          "PRE_CONTROL"), "POST_CONTROL")
    /\ invoked' = Invoke(Invoke(Invoke(Invoke(invoked, "PRE_CONTROL"),
                                       "POST_CONTROL"), "PRE_CONTROL"),
                         "POST_CONTROL")
    /\ events' = events \o <<"PRE_CONTROL", "handle", "POST_CONTROL",
                              "PRE_CONTROL", "handle", "POST_CONTROL">>
    /\ pc' = IF handler_raises THEN "raised" ELSE next_pc
    /\ error' = IF handler_raises THEN Some("HandlerError") ELSE error

control_PostFirst(handler_raises, next_pc) ==
    /\ handle_times' = Append(handle_times, data_time)
    /\ simulation_states' = sample(simulation_states, FALSE, "control")
    /\ fired' = Fire(Fire(fired, "PRE_CONTROL"), "POST_CONTROL")
    /\ invoked' = Invoke(Invoke(invoked, "PRE_CONTROL"), "POST_CONTROL")
    /\ events' = events \o <<"PRE_CONTROL", "POST_CONTROL", "handle">>
    /\ pc' = IF handler_raises THEN "raised" ELSE next_pc
    /\ error' = IF handler_raises THEN Some("HandlerError") ELSE error

control(handler_raises, next_pc) ==
    /\ handle_times' = Append(handle_times, data_time)
    /\ simulation_states' = sample(simulation_states, FALSE, "control")
    /\ fired' = IF handler_raises
                   THEN Fire(fired, "PRE_CONTROL")
                   ELSE Fire(Fire(fired, "PRE_CONTROL"), "POST_CONTROL")
    /\ invoked' = IF handler_raises
                     THEN Invoke(invoked, "PRE_CONTROL")
                     ELSE Invoke(Invoke(invoked, "PRE_CONTROL"),
                                 "POST_CONTROL")
    /\ events' = IF handler_raises
                    THEN events \o <<"PRE_CONTROL", "handle">>
                    ELSE events \o <<"PRE_CONTROL", "handle", "POST_CONTROL">>
    /\ pc' = IF handler_raises THEN "raised" ELSE next_pc
    /\ error' = IF handler_raises THEN Some("HandlerError") ELSE error

\* mujoco.mj_step(model, data): data.time advances by the model's timestep.
\* (mj_step_Twice: it advances by two timesteps.)
mj_step_Twice(t) == t + 2 * simulation_timestep

mj_step(t) == t + simulation_timestep

\* time >= last_..._time + ..._step
\* (Due_Strict: the comparison is strict; Due_NoStep: the step is left out.)
Due_Strict(t, last, step) == t > last + step

Due_NoStep(t, last, step) == t >= last

\* (Due_Early: the cadence fires one timestep ahead of its boundary.)
Due_Early(t, last, step) == t + simulation_timestep >= last + step

Due(t, last, step) == t >= last + step

\* math.floor(a / b) and int(a / b) for b # 0 (a / 0 is a ZeroDivisionError,
\* raised by the statements that divide).
FloorDiv(a, b) == IF b > 0 THEN a \div b ELSE (0 - a) \div (0 - b)

TruncDiv(a, b) ==
    LET abs(n) == IF n < 0 THEN 0 - n ELSE n
        q == abs(a) \div abs(b)
    IN  IF (a < 0) # (b < 0) THEN 0 - q ELSE q

\* math.floor(time / control_step) * control_step
\* (Anchor_NoFloor: the anchor is the firing time itself.)
Anchor_NoFloor(t, step) == t

\* (Anchor_Ceil: the next multiple of the step instead of the last one.)
Anchor_Ceil(t, step) == (FloorDiv(t, step) + 1) * step

Anchor(t, step) == FloorDiv(t, step) * step

\* int(time / sample_step) * sample_step, and the same for video_step
\* (AnchorInt_NoTrunc: the anchor is the firing time itself.)
AnchorInt_NoTrunc(t, step) == t

\* (AnchorInt_Previous: one period before the floored multiple.)
AnchorInt_Previous(t, step) == (TruncDiv(t, step) - 1) * step

AnchorInt(t, step) == TruncDiv(t, step) * step

\* The loop condition: time <= (inf if simulation_time is None else
\* simulation_time).  (InLoop_Strict: the comparison is strict;
\* InLoop_OneMore: the bound is one timestep later;
\* InLoop_NoneIsZero: an unset simulation_time counts as 0.)
InLoop_NoneIsZero(t) ==
    t <= (IF simulation_time = None THEN 0 ELSE Val(simulation_time))

InLoop_OneMore(t) ==
    simulation_time = None \/ t <= Val(simulation_time) + simulation_timestep

InLoop_Strict(t) == simulation_time = None \/ t < Val(simulation_time)

InLoop(t) == simulation_time = None \/ t <= Val(simulation_time)

\* if _status == -1: break
\* (AfterRender_NoBreak: the status is ignored; AfterRender_Return: the
\* closed status returns at once, skipping the shutdown.)
AfterRender_NoBreak(st) == "video"

\* (AfterRender_ToPostStep: the closed status skips the video frame only.)
AfterRender_ToPostStep(st) == IF st = Some(-1) THEN "post_step" ELSE "video"

AfterRender_Return(st) == IF st = Some(-1) THEN "done" ELSE "video"

AfterRender(st) == IF st = Some(-1) THEN "end" ELSE "video"

\* MujocoViewer.close(), reached from render and from close_viewer.
close(v) == [v EXCEPT !.is_alive = FALSE, !.close_count = @ + 1]

\* CustomMujocoViewer.can_record is True; the native viewer declares its own.
can_record == IF viewer_type = "CUSTOM" THEN TRUE ELSE native_can_record

\* The phases _MujocoViewerBackend.update looks up in callbacks.
UpdateLookups == {"PRE_RENDER", "POST_RENDER"}

\* _MujocoViewerBackend.update: looks up Callback.PRE_RENDER and
\* Callback.POST_RENDER, which raises AttributeError when the enum has no
\* such member.
update(v) ==
    IF UpdateLookups \subseteq Callback
       THEN [viewer |-> v, raised |-> None]
       ELSE [viewer |-> v, raised |-> Some("AttributeError")]

\* _MujocoViewerBackend.render (the second definition, which replaces the
\* first): returns None on every path.
BackendRender(v) ==
    IF ~v.is_alive
       THEN [viewer |-> v, status |-> None, raised |-> None, blocked |-> FALSE]
    ELSE IF v.window_should_close
       THEN [viewer |-> close(v), status |-> None, raised |-> None,
             blocked |-> FALSE]
    ELSE LET u == update(v) IN
         IF u.raised # None
            THEN [viewer |-> v, status |-> None, raised |-> u.raised,
                  blocked |-> FALSE]
            \* while self._paused: update(...) until the window closes
            ELSE [viewer |-> u.viewer, status |-> None, raised |-> None,
                  blocked |-> v.paused]

\* CustomMujocoViewer.render: feedback of the backend's render.
CustomRender(v) == BackendRender(v)

\* The native viewer's render (viewer contract): closed (-1) once the window
\* was closed, otherwise continue.
NativeRender(v) ==
    [viewer |-> v,
     status |-> IF v.window_should_close THEN Some(-1) ELSE None,
     raised |-> None, blocked |-> FALSE]

\* not offscreen_render and not viewer.can_record
\* (RecordingRefused_Never: the check is missing.)
RecordingRefused_Never == FALSE

RecordingRefused == ~offscreen_render /\ ~can_record

\* not headless or (record_settings is not None and time >= last_video_time
\* + video_step) and not offscreen_render: `and` binds tighter than `or`.
\* (ShouldRender_NoOffscreenGuard: `and not offscreen_render` is missing.)
ShouldRender_NoOffscreenGuard ==
    ~headless
    \/ (record_settings # None /\ Due(time, last_video_time, Val(video_step)))

ShouldRender ==
    ~headless
    \/ ((record_settings # None
         /\ Due(time, last_video_time, Val(video_step)))
        /\ ~offscreen_render)

\* (not headless or record_settings is not None) and not offscreen_render
\* (ShouldCloseViewer_NoOffscreenGuard: `and not offscreen_render` is
\* missing.)
ShouldCloseViewer_NoOffscreenGuard == ~headless \/ record_settings # None

ShouldCloseViewer ==
    (~headless \/ record_settings # None) /\ ~offscreen_render

\* match viewer_type: ... case _: raise ValueError (only when not headless)
\* (ViewerRejected_Never: the default case is missing.)
ViewerRejected_Never == FALSE

ViewerRejected == ~headless /\ viewer_type \notin ViewerType

\* str.lower() on the camera type names of the model.
lower(name) ==
    CASE name = "FREE" -> "free"
      [] name = "Tracking" -> "tracking"
      [] OTHER -> name

\* dict(free=..., tracking=..., fixed=..., user=...)[camera_type.lower()]
\* raises KeyError; the lookup is made only for the offscreen camera.
CameraRejected ==
    /\ offscreen_render
    /\ camera_type # None
    /\ lower(Val(camera_type)) \notin CameraTypes

\* viewer.render(callbacks)
ViewerRender(v) ==
    IF viewer_type = "CUSTOM" THEN CustomRender(v) ELSE NativeRender(v)

\* viewer.close_viewer(): CustomMujocoViewer closes its backend; so does the
\* native viewer (viewer contract).
close_viewer(v) == [close(v) EXCEPT !.close_viewer_calls = @ + 1]

----
\* Simulator.register_callback, called on the simulator before the scene is
\* run; the callback is named by its registration number.
RegisterCallback ==
    /\ pc = "start"
    /\ Len(invoked) = 0
    /\ \E ctype \in Callback :
          LET n == Cardinality({<<p, i>> \in Callback \X (1..MaxCallbacks) :
                                   i \in DOMAIN callbacks[p]})
          IN  /\ n < MaxCallbacks
              /\ callbacks' = register_callback(callbacks, ctype, n + 1)
    /\ UNCHANGED <<cpg_vars, config,
                   pc, error, data_time, time, last_control_time,
                   last_sample_time, last_video_time, video_step,
                   simulation_states, handle_times, nsteps, frames, fired,
                   viewer, video, status, states_at_cancel, invoked, events>>

\* lines 57-138: build the model, open the viewer when not headless, set the
\* phase anchors and the result list.
Setup ==
    /\ pc = "start"
    /\ IF ViewerRejected
          THEN /\ pc' = "raised"
               /\ error' = Some("ValueError")
               /\ UNCHANGED viewer
       ELSE IF CameraRejected
          THEN /\ pc' = "raised"
               /\ error' = Some("KeyError")
               /\ UNCHANGED viewer
       ELSE /\ viewer' = IF headless
                            THEN viewer
                            ELSE [constructed |-> TRUE, is_alive |-> TRUE,
                                  window_should_close |-> FALSE,
                                  paused |-> start_paused, close_count |-> 0,
                                  close_viewer_calls |-> 0,
                                  render_calls |-> 0]
            /\ pc' = "record"
            /\ UNCHANGED error
    /\ last_control_time' = 0
    /\ last_sample_time' = 0
    /\ last_video_time' = 0
    /\ simulation_states' = <<>>
    /\ UNCHANGED <<cpg_vars, config, data_time, time, video_step,
                   handle_times, nsteps, frames, fired, video, status,
                   states_at_cancel, callbacks, invoked, events>>

\* lines 141-157: the can_record check and the video writer.
RecordSetup ==
    /\ pc = "record"
    /\ IF record_settings = None
          THEN pc' = "callbacks_start" /\ UNCHANGED <<error, video_step, video>>
          ELSE IF RecordingRefused
                  THEN /\ pc' = "raised"
                       /\ error' = Some("ValueError")
                       /\ UNCHANGED <<video_step, video>>
                  ELSE /\ video_step' = Some(Val(record_settings))
                       /\ video' = "open"
                       /\ pc' = "callbacks_start"
                       /\ UNCHANGED error
    /\ UNCHANGED <<cpg_vars, config, data_time, time, last_control_time,
                   last_sample_time, last_video_time, simulation_states,
                   handle_times, nsteps, frames, fired, viewer, status,
                   states_at_cancel, callbacks, invoked, events>>

\* lines 161-166: START callbacks, RENDER_START callbacks when not headless.
FireStart ==
    /\ pc = "callbacks_start"
    /\ fired' = IF headless
                   THEN Fire(fired, "START")
                   ELSE Fire(Fire(fired, "START"), "RENDER_START")
    /\ invoked' = IF headless
                     THEN Invoke(invoked, "START")
                     ELSE Invoke(Invoke(invoked, "START"), "RENDER_START")
    /\ events' = IF headless
                    THEN events \o <<"START">>
                    ELSE events \o <<"START", "RENDER_START">>
    /\ pc' = "forward"
    /\ UNCHANGED <<cpg_vars, config, error, data_time, time, last_control_time,
                   last_sample_time, last_video_time, video_step,
                   simulation_states, handle_times, nsteps, frames, viewer,
                   video, status, states_at_cancel, callbacks>>

\* lines 172-176: mj_forward and the initial camera images; time does not move.
Forward ==
    /\ pc = "forward"
    /\ events' = Append(events, "forward")
    /\ pc' = "initial_sample"
    /\ UNCHANGED <<cpg_vars, config, error, data_time, time, last_control_time,
                   last_sample_time, last_video_time, video_step,
                   simulation_states, handle_times, nsteps, frames, fired,
                   viewer, video, status, states_at_cancel, callbacks,
                   invoked>>

\* lines 195-197: sample the initial state.
InitialSample ==
    /\ pc = "initial_sample"
    /\ simulation_states' =
          sample(simulation_states, sample_step # None, "initial")
    /\ events' = IF sample_step # None THEN Append(events, "sample")
                                       ELSE events
    /\ pc' = "initial_control"
    /\ UNCHANGED <<cpg_vars, config, error, data_time, time, last_control_time,
                   last_sample_time, last_video_time, video_step,
                   handle_times, nsteps, frames, fired, viewer, video, status,
                   states_at_cancel, callbacks, invoked>>

\* lines 199-200: the control dispatch before the loop.
InitialControl ==
    /\ pc = "initial_control"
    /\ IF control_step # None
          THEN \E handler_raises \in BOOLEAN : control(handler_raises, "loop")
          ELSE /\ pc' = "loop"
               /\ UNCHANGED <<handle_times, simulation_states, fired, invoked,
                              events, error>>
    /\ UNCHANGED <<cpg_vars, config, data_time, time, last_control_time,
                   last_sample_time, last_video_time, video_step, nsteps,
                   frames, viewer, video, status, states_at_cancel,
                   callbacks>>

\* lines 203-205: while (time := data.time) <= simulation_time (no bound when
\* simulation_time is None; such a run is followed for MaxTicks ticks).
LoopHead ==
    /\ pc = "loop"
    /\ simulation_time = None => nsteps < MaxTicks
    /\ time' = data_time
    /\ events' = <<>>
    /\ pc' = IF InLoop(data_time) THEN "pre_step" ELSE "end"
    /\ UNCHANGED <<cpg_vars, config, error, data_time, last_control_time,
                   last_sample_time, last_video_time, video_step,
                   simulation_states, handle_times, nsteps, frames, fired,
                   viewer, video, status, states_at_cancel, callbacks,
                   invoked>>

\* lines 206-207: PRE_STEP callbacks.
PreStep ==
    /\ pc = "pre_step"
    /\ fired' = Fire(fired, "PRE_STEP")
    /\ invoked' = Invoke(invoked, "PRE_STEP")
    /\ events' = Append(events, "PRE_STEP")
    /\ pc' = "control"
    /\ UNCHANGED <<cpg_vars, config, error, data_time, time, last_control_time,
                   last_sample_time, last_video_time, video_step,
                   simulation_states, handle_times, nsteps, frames, viewer,
                   video, status, states_at_cancel, callbacks>>

\* lines 209-213: do control if it is time.  last_control_time + None is a
\* TypeError, time / 0 a ZeroDivisionError.
ControlCheck ==
    /\ pc = "control"
    /\ IF control_step = None
          THEN /\ pc' = "raised"
               /\ error' = Some("TypeError")
               /\ UNCHANGED <<last_control_time, handle_times,
                              simulation_states, fired, invoked, events>>
          ELSE IF ~Due(time, last_control_time, Val(control_step))
                  THEN /\ pc' = "sample"
                       /\ UNCHANGED <<last_control_time, handle_times,
                                      simulation_states, fired, invoked,
                                      events, error>>
          ELSE IF Val(control_step) = 0
                  THEN /\ pc' = "raised"
                       /\ error' = Some("ZeroDivisionError")
                       /\ UNCHANGED <<last_control_time, handle_times,
                                      simulation_states, fired, invoked,
                                      events>>
          ELSE /\ last_control_time' = Anchor(time, Val(control_step))
               /\ \E handler_raises \in BOOLEAN :
                     control(handler_raises, "sample")
    /\ UNCHANGED <<cpg_vars, config,
                   data_time, time, last_sample_time, last_video_time,
                   video_step, nsteps, frames, viewer, video, status,
                   states_at_cancel, callbacks>>

\* lines 215-219: sample state if it is time.
SampleCheck ==
    /\ pc = "sample"
    /\ IF sample_step # None
          /\ Due(time, last_sample_time, Val(sample_step))
          THEN IF Val(sample_step) = 0
                  THEN /\ pc' = "raised"
                       /\ error' = Some("ZeroDivisionError")
                       /\ UNCHANGED <<last_sample_time, simulation_states,
                                      events>>
                  ELSE /\ last_sample_time' =
                             AnchorInt(time, Val(sample_step))
                       /\ simulation_states' =
                             sample(simulation_states, TRUE, "periodic")
                       /\ events' = Append(events, "sample")
                       /\ pc' = "step"
                       /\ UNCHANGED error
          ELSE /\ pc' = "step"
               /\ UNCHANGED <<last_sample_time, simulation_states, events,
                              error>>
    /\ UNCHANGED <<cpg_vars, config, data_time, time, last_control_time,
                   last_video_time, video_step, handle_times, nsteps, frames,
                   fired, viewer, video, status, states_at_cancel, callbacks,
                   invoked>>

\* lines 221-227: mj_step advances data.time by one timestep (or the backend
\* fails), then the camera images are recomputed.
Step ==
    /\ pc = "step"
    /\ \E backend_fails \in BOOLEAN :
          IF backend_fails
             THEN /\ pc' = "raised"
                  /\ error' = Some("BackendError")
                  /\ UNCHANGED <<data_time, nsteps, events>>
             ELSE /\ data_time' = mj_step(data_time)
                  /\ nsteps' = nsteps + 1
                  /\ events' = Append(events, "step")
                  /\ pc' = "render"
                  /\ UNCHANGED error
    /\ UNCHANGED <<cpg_vars, config, time, last_control_time, last_sample_time,
                   last_video_time, video_step, simulation_states,
                   handle_times, frames, fired, viewer, video, status,
                   states_at_cancel, callbacks, invoked>>

\* The user asks the window to close; glfw.window_should_close reports it to
\* the next render call.
UserCloseWindow ==
    /\ pc = "render"
    /\ viewer.constructed /\ viewer.is_alive /\ ~viewer.window_should_close
    /\ viewer' = [viewer EXCEPT !.window_should_close = TRUE]
    /\ UNCHANGED <<cpg_vars, config,
                   pc, error, data_time, time, last_control_time,
                   last_sample_time, last_video_time, video_step,
                   simulation_states, handle_times, nsteps, frames, fired,
                   video, status, states_at_cancel, callbacks, invoked,
                   events>>

\* lines 229-237: render when not headless; leave the loop on status -1.
\* `viewer` is bound only when not headless: using it otherwise is an
\* UnboundLocalError.
Render ==
    /\ pc = "render"
    /\ IF ~ShouldRender
          THEN /\ pc' = "video"
               /\ UNCHANGED <<error, viewer, status, states_at_cancel, events>>
       ELSE IF ~viewer.constructed
          THEN /\ pc' = "raised"
               /\ error' = Some("UnboundLocalError")
               /\ UNCHANGED <<viewer, status, states_at_cancel, events>>
       ELSE LET r == ViewerRender(viewer) IN
            IF r.raised # None
               THEN /\ pc' = "raised"
                    /\ error' = r.raised
                    /\ viewer' = [viewer EXCEPT !.render_calls = @ + 1]
                    /\ events' = Append(events, "render")
                    /\ UNCHANGED <<status, states_at_cancel>>
            ELSE IF r.blocked
               THEN UNCHANGED <<pc, error, viewer, status, states_at_cancel,
                                events>>
            ELSE /\ viewer' = [r.viewer EXCEPT !.render_calls = @ + 1]
                 /\ status' = r.status
                 /\ events' = Append(events, "render")
                 /\ pc' = AfterRender(r.status)
                 /\ states_at_cancel' =
                       IF r.status = Some(-1)
                          THEN Some(simulation_states)
                          ELSE states_at_cancel
                 /\ UNCHANGED error
    /\ UNCHANGED <<cpg_vars, config, data_time, time, last_control_time,
                   last_sample_time, last_video_time, video_step,
                   simulation_states, handle_times, nsteps, frames, fired,
                   video, callbacks, invoked>>

\* lines 239-262: capture a video frame if it is time.
VideoCheck ==
    /\ pc = "video"
    /\ IF record_settings # None
          /\ Due(time, last_video_time, Val(video_step))
          THEN /\ last_video_time' = AnchorInt(time, Val(video_step))
               /\ frames' = frames + 1
               /\ events' = Append(events, "frame")
          ELSE UNCHANGED <<last_video_time, frames, events>>
    /\ pc' = "post_step"
    /\ UNCHANGED <<cpg_vars, config, error, data_time, time, last_control_time,
                   last_sample_time, video_step, simulation_states,
                   handle_times, nsteps, fired, viewer, video, status,
                   states_at_cancel, callbacks, invoked>>

\* lines 264-265: POST_STEP callbacks, then back to the loop condition.
PostStep ==
    /\ pc = "post_step"
    /\ fired' = Fire(fired, "POST_STEP")
    /\ invoked' = Invoke(invoked, "POST_STEP")
    /\ events' = Append(events, "POST_STEP")
    /\ pc' = "loop"
    /\ UNCHANGED <<cpg_vars, config, error, data_time, time, last_control_time,
                   last_sample_time, last_video_time, video_step,
                   simulation_states, handle_times, nsteps, frames, viewer,
                   video, status, states_at_cancel, callbacks>>

\* lines 267-272: END callbacks, RENDER_END callbacks when not headless.
FireEnd ==
    /\ pc = "end"
    /\ fired' = IF headless
                   THEN Fire(fired, "END")
                   ELSE Fire(Fire(fired, "END"), "RENDER_END")
    /\ invoked' = IF headless
                     THEN Invoke(invoked, "END")
                     ELSE Invoke(Invoke(invoked, "END"), "RENDER_END")
    /\ events' = IF headless
                    THEN events \o <<"END">>
                    ELSE events \o <<"END", "RENDER_END">>
    /\ pc' = "close_viewer"
    /\ UNCHANGED <<cpg_vars, config, error, data_time, time, last_control_time,
                   last_sample_time, last_video_time, video_step,
                   simulation_states, handle_times, nsteps, frames, viewer,
                   video, status, states_at_cancel, callbacks>>

\* lines 274-276: close the viewer.
CloseViewer ==
    /\ pc = "close_viewer"
    /\ IF ShouldCloseViewer
          THEN /\ viewer' = close_viewer(viewer)
               /\ events' = Append(events, "close_viewer")
          ELSE UNCHANGED <<viewer, events>>
    /\ pc' = "release_video"
    /\ UNCHANGED <<cpg_vars, config, error, data_time, time, last_control_time,
                   last_sample_time, last_video_time, video_step,
                   simulation_states, handle_times, nsteps, frames, fired,
                   video, status, states_at_cancel, callbacks, invoked>>

\* lines 278-279: release the video writer.
ReleaseVideo ==
    /\ pc = "release_video"
    /\ IF record_settings # None
          THEN /\ video' = "released"
               /\ events' = Append(events, "release_video")
          ELSE UNCHANGED <<video, events>>
    /\ pc' = "final_sample"
    /\ UNCHANGED <<cpg_vars, config, error, data_time, time, last_control_time,
                   last_sample_time, last_video_time, video_step,
                   simulation_states, handle_times, nsteps, frames, fired,
                   viewer, status, states_at_cancel, callbacks, invoked>>

\* lines 281-289: sample one final time, free the camera viewers, return.
FinalSample ==
    /\ pc = "final_sample"
    /\ simulation_states' =
          sample(simulation_states, sample_step # None, "final")
    /\ events' = IF sample_step # None THEN Append(events, "sample")
                                       ELSE events
    /\ pc' = "done"
    /\ UNCHANGED <<cpg_vars, config, error, data_time, time, last_control_time,
                   last_sample_time, last_video_time, video_step,
                   handle_times, nsteps, frames, fired, viewer, video, status,
                   states_at_cancel, callbacks, invoked>>

Next ==
    \/ Setup
    \/ RecordSetup
    \/ FireStart
    \/ Forward
    \/ InitialSample
    \/ InitialControl
    \/ LoopHead
    \/ PreStep
    \/ ControlCheck
    \/ SampleCheck
    \/ Step
    \/ UserCloseWindow
    \/ Render
    \/ VideoCheck
    \/ PostStep
    \/ FireEnd
    \/ CloseViewer
    \/ ReleaseVideo
    \/ FinalSample

Spec == Init /\ [][Next]_vars

\* The run of the concrete scenario simulation_timestep = 0.01,
\* control_step = 1/60, sample_step = 1/5, simulation_time = 2, headless and
\* without recording, in time units of 1/300 s.
InitScenario ==
    /\ headless = TRUE
    /\ record_settings = None
    /\ viewer_type = "CUSTOM"
    /\ start_paused = FALSE
    /\ native_can_record = FALSE
    /\ simulation_timestep = 3
    /\ control_step = Some(5)
    /\ sample_step = Some(60)
    /\ simulation_time = Some(600)
    /\ camera_type = None
    /\ InitRun

NextScenario ==
    \/ Setup
    \/ RecordSetup
    \/ FireStart
    \/ Forward
    \/ InitialSample
    \/ InitialControl
    \/ LoopHead
    \/ PreStep
    \/ ControlCheck
    \/ SampleCheck
    \/ Step
    \/ Render
    \/ VideoCheck
    \/ PostStep
    \/ FireEnd
    \/ CloseViewer
    \/ ReleaseVideo
    \/ FinalSample

SpecScenario == InitScenario /\ [][NextScenario]_vars

\* Runs with simulation_time set.  simulate_scene is one sequential call:
\* while it has a next statement, that statement is executed; the user may
\* or may not close the window.
InitTerminating ==
    /\ InitArgs
    /\ simulation_time # None
    /\ sample_step \in {None, Some(2)}
    /\ record_settings \in {None, Some(2)}
    /\ ~start_paused
    /\ InitRun

SpecTerminating ==
    InitTerminating /\ [][Next]_vars /\ WF_vars(NextScenario)

\* Headless runs without recording whose control_step or sample_step is set
\* but not positive.
InitMalformed ==
    /\ headless = TRUE
    /\ record_settings = None
    /\ viewer_type = "CUSTOM"
    /\ start_paused = FALSE
    /\ native_can_record = FALSE
    /\ simulation_timestep \in 1..MaxDt
    /\ control_step \in {Some(c) : c \in (0 - MaxCadence)..MaxCadence}
    /\ sample_step \in {None} \cup
                       {Some(c) : c \in (0 - MaxCadence)..MaxCadence}
    /\ Val(control_step) <= 0 \/ (sample_step # None /\ Val(sample_step) <= 0)
    /\ simulation_time \in {Some(t) : t \in 0..MaxTime}
    /\ camera_type = None
    /\ InitRun

SpecMalformed == InitMalformed /\ [][NextScenario]_vars

\* A windowed run with either viewer, and a headless one, with callbacks
\* registered on the simulator beforehand.
InitCallbacks ==
    /\ headless \in BOOLEAN
    /\ record_settings = None
    /\ viewer_type \in ViewerType
    /\ headless => viewer_type = "CUSTOM"
    /\ start_paused = FALSE
    /\ native_can_record = FALSE
    /\ simulation_timestep = 1
    /\ control_step \in {Some(1), Some(2)}
    /\ sample_step = None
    /\ simulation_time = Some(2)
    /\ camera_type = None
    /\ InitRun

NextCallbacks ==
    \/ RegisterCallback
    \/ Next

SpecCallbacks == InitCallbacks /\ [][NextCallbacks]_vars

\* Runs over the selectors: any viewer type, also one that is neither CUSTOM
\* nor NATIVE, and any camera type string, in every combination of headless
\* and recording.
InitSelectors ==
    /\ headless \in BOOLEAN
    /\ record_settings \in {None, Some(1)}
    /\ viewer_type \in ViewerType \cup {"OTHER"}
    /\ camera_type \in {None} \cup {Some(c) : c \in CameraTypes}
                          \cup {Some("FREE"), Some("Tracking"), Some("other")}
    /\ start_paused = FALSE
    /\ native_can_record = (~headless /\ viewer_type = "NATIVE")
    /\ simulation_timestep = 1
    /\ control_step = Some(1)
    /\ sample_step \in {None, Some(1)}
    /\ simulation_time = Some(1)
    /\ InitRun

SpecSelectors == InitSelectors /\ [][Next]_vars

----
\* The CPG network structure.

\* Cpg: a frozen dataclass with the field index.
Cpg(index) == [index |-> index]

\* CpgPair.__init__: the CPG with the lowest index comes first.
\* (CpgPair_NoSwap: the arguments are stored as given.)
CpgPair_NoSwap(cpg_1, cpg_2) ==
    [cpg_index_lowest |-> cpg_1, cpg_index_highest |-> cpg_2]

CpgPair(cpg_1, cpg_2) ==
    IF cpg_1.index < cpg_2.index
       THEN [cpg_index_lowest |-> cpg_1, cpg_index_highest |-> cpg_2]
       ELSE [cpg_index_lowest |-> cpg_2, cpg_index_highest |-> cpg_1]

\* CpgNetworkStructure.make_cpgs: [Cpg(index) for index in range(num_cpgs)]
make_cpgs(n) == [i \in 1..n |-> Cpg(i - 1)]

\* CpgNetworkStructure.num_cpgs and .num_states
num_cpgs == Len(cpgs)

num_states == Len(cpgs) * 2

\* CpgNetworkStructure.make_uniform_state: mask * value, where mask is
\* _half ones followed by _half minus ones.
make_uniform_state(v) ==
    LET _half == num_states \div 2
        mask == [i \in 1..(2 * _half) |-> IF i <= _half THEN 1 ELSE 0 - 1]
    IN  [i \in DOMAIN mask |-> mask[i] * v]

\* The CPG indices pairs are made of.
CpgIndices == 0..(MaxCpgs - 1)

\* CpgNetworkStructure.make_cpgs(n) for the structure's cpgs.
MakeCpgs ==
    /\ cpgs = <<>>
    /\ connections = {}
    /\ pair = None
    /\ uniform_state = None
    /\ weight_matrix = None
    /\ \E n \in 1..MaxCpgs : cpgs' = make_cpgs(n)
    /\ UNCHANGED <<sim_vars, connections, cpg_a, cpg_b, pair, uniform_value,
                   uniform_state, weight_matrix>>

\* CpgPair(cpg_1, cpg_2); a pair of two CPGs of the structure becomes one of
\* its connections.
NewCpgPair ==
    /\ \E a \in CpgIndices, b \in CpgIndices :
          /\ cpg_a' = Some(Cpg(a))
          /\ cpg_b' = Some(Cpg(b))
          /\ pair' = Some(CpgPair(Cpg(a), Cpg(b)))
          /\ connections' =
                IF /\ a < num_cpgs
                   /\ b < num_cpgs
                   /\ Cardinality(connections) < MaxConnections
                   THEN connections \cup {CpgPair(Cpg(a), Cpg(b))}
                   ELSE connections
    /\ UNCHANGED <<sim_vars, cpgs, uniform_value, uniform_state,
                   weight_matrix>>

\* CpgNetworkStructure.make_uniform_state(value)
MakeUniformState ==
    /\ \E v \in (0 - MaxValue)..MaxValue :
          /\ uniform_value' = Some(v)
          /\ uniform_state' = Some(make_uniform_state(v))
    /\ UNCHANGED <<sim_vars, cpgs, connections, cpg_a, cpg_b, pair,
                   weight_matrix>>

NextCpg ==
    \/ MakeCpgs
    \/ NewCpgPair
    \/ MakeUniformState

\* No simulation is running: the run variables stay at a fixed entry state.
InitCpg == InitScenario

SpecCpg == InitCpg /\ [][NextCpg]_vars

\* CpgNetworkStructure.make_connection_weights_matrix.  The matrix starts as
\* zeros; each internal weight is written to [i][n + i] and its negation to
\* [n + i][i]; each external weight is written to [lowest][highest] and then
\* its negation to [highest][lowest], so that for a cell written twice by
\* one pair the second write is the one that stays.  Rows and columns are
\* numbered from 0.
make_connection_weights_matrix(internal, external) ==
    LET state_size == num_cpgs * 2
        cell(i, j) ==
            IF \E p \in connections :
                  p.cpg_index_highest.index = i /\ p.cpg_index_lowest.index = j
               THEN 0 - external[CHOOSE p \in connections :
                                    /\ p.cpg_index_highest.index = i
                                    /\ p.cpg_index_lowest.index = j]
            ELSE IF \E p \in connections :
                  p.cpg_index_lowest.index = i /\ p.cpg_index_highest.index = j
               THEN external[CHOOSE p \in connections :
                                /\ p.cpg_index_lowest.index = i
                                /\ p.cpg_index_highest.index = j]
            ELSE IF i < num_cpgs /\ j = num_cpgs + i
               THEN internal[Cpg(i)]
            ELSE IF j < num_cpgs /\ i = num_cpgs + j
               THEN 0 - internal[Cpg(j)]
            ELSE 0
    IN  [i \in 0..(state_size - 1) |->
            [j \in 0..(state_size - 1) |-> cell(i, j)]]

\* The weights given to make_connection_weights_matrix.
Weights == (0 - MaxWeight)..MaxWeight

\* make_connection_weights_matrix(internal_connection_weights,
\* external_connection_weights) with the key sets its asserts demand.  The
\* method reads the structure and its arguments only, so a second call adds
\* nothing to the first: one call is followed.
MakeConnectionWeightsMatrix ==
    /\ weight_matrix = None
    /\ \E internal \in [Range(cpgs) -> Weights],
          external \in [connections -> Weights] :
          weight_matrix' =
             Some(make_connection_weights_matrix(internal, external))
    /\ UNCHANGED <<sim_vars, cpgs, connections, cpg_a, cpg_b, pair,
                   uniform_value, uniform_state>>

NextCpgMatrix ==
    \/ MakeCpgs
    \/ NewCpgPair
    \/ MakeConnectionWeightsMatrix

SpecCpgMatrix == InitCpg /\ [][NextCpgMatrix]_vars

----
\* Helpers of the properties.
IsPrefix(a, b) == Len(a) <= Len(b) /\ SubSeq(b, 1, Len(a)) = a

NonDecreasing(states) ==
    \A i \in 1..Len(states) : \A j \in i..Len(states) :
        states[i].time <= states[j].time

Periodic(states) == SelectSeq(states, LAMBDA x : x.kind = "periodic")

\* The loop was left by `break` after a render call returned -1.
Cancelled == status = Some(-1)

\* The loop ran to the time bound and simulate_scene returned.
Completed == pc = "done" /\ ~Cancelled /\ simulation_time # None

\* The tick times k * simulation_timestep, 0 < k < n, at which the cadence
\* `step` enters a new period: floor(t / step) > floor(t_prev / step).
CrossingTicks(step, n) ==
    IF n <= 1
       THEN <<>>
       ELSE SelectSeq([k \in 1..(n - 1) |-> k * simulation_timestep],
                      LAMBDA t : (t \div step)
                                     > ((t - simulation_timestep) \div step))

\* The multiples of `step` up to `bound`.
Multiples(step, bound) == {m \in 0..bound : m % step = 0}

C4_AppendOnlyOrdered ==
    [][/\ IsPrefix(simulation_states, simulation_states')
       /\ NonDecreasing(simulation_states')]_vars

C4_Witness ==
    /\ pc = "done"
    /\ Len(simulation_states) = 4
    /\ \A i \in 1..3 : simulation_states[i].time < simulation_states[i + 1].time

ShutdownPcs == {"end", "close_viewer", "release_video", "final_sample", "done"}

\* C5: once a render call of a windowed run has returned the closed status,
\* the loop is left in that same iteration: simulate_scene is in its shutdown
\* and no physics step, control dispatch, periodic sample or video frame
\* happens from then on.
C5_CancelEndsLoop ==
    [][Cancelled'
          => /\ ~headless
             /\ pc' \in ShutdownPcs
             /\ nsteps' = nsteps
             /\ handle_times' = handle_times
             /\ frames' = frames
             /\ Periodic(simulation_states') = Periodic(simulation_states)]_vars

C5_Witness ==
    /\ pc = "done"
    /\ Cancelled
    /\ nsteps = 3
    /\ record_settings = Some(1)
    /\ frames = 1
    /\ Due(time, last_video_time, Val(video_step))

\* C6 (as claimed): with the custom viewer in windowed mode, a render call made
\* once the window has been closed (window_should_close is true or is_alive
\* is false) returns the closed status -1.
C6_ClosedWindowReportsClosed ==
    [][(/\ pc = "render"
        /\ ~headless
        /\ viewer_type = "CUSTOM"
        /\ (viewer.window_should_close \/ ~viewer.is_alive)
        /\ pc' # "render")
          => status' = Some(-1)]_vars

\* C7: when recording is requested in windowed mode and the viewer cannot
\* record, simulate_scene raises ValueError at the recording set-up: before
\* any physics step, any sample, any callback (START included) and any
\* handler call.
C7_CannotRecordFailsFast ==
    (/\ record_settings # None
     /\ ~headless
     /\ ~can_record
     /\ pc \notin {"start", "record"})
        => /\ pc = "raised"
           /\ error = Some("ValueError")
           /\ nsteps = 0
           /\ simulation_states = <<>>
           /\ handle_times = <<>>
           /\ \A p \in Callback : fired[p] = 0

C7_Witness ==
    /\ pc = "raised"
    /\ error = Some("ValueError")
    /\ record_settings # None
    /\ ~headless
    /\ ~can_record

\* C8 (as claimed): on every exit of simulate_scene, by return or by an
\* exception, a viewer that was opened has been closed and a video writer
\* that was opened has been released.
C8_ResourcesReleasedOnExit ==
    Exited => /\ ~(viewer.constructed /\ viewer.is_alive)
              /\ video # "open"

\* C9 (as claimed): a windowed run that returns has invoked the viewer
\* backend's close exactly once (the close inside render and the one of
\* close_viewer counted together); a headless run never calls close_viewer.
C9_ViewerClosedExactlyOnce ==
    pc = "done"
        => IF headless
              THEN viewer.close_viewer_calls = 0 /\ viewer.close_count = 0
              ELSE viewer.close_count = 1

\* C10: a run with sampling that is cancelled by the viewer returns the
\* samples appended before the cancellation followed by exactly one final
\* sample, taken at the time of shutdown, as the last entry; when recording,
\* the video writer has been released.
C10_CancelReturnsSamplesPlusFinal ==
    (pc = "done" /\ Cancelled /\ sample_step # None)
        => /\ states_at_cancel # None
           /\ \A i \in DOMAIN Val(states_at_cancel) :
                  Val(states_at_cancel)[i].kind # "final"
           /\ simulation_states
                 = Append(Val(states_at_cancel),
                          [time |-> data_time, kind |-> "final"])
           /\ record_settings # None => video = "released"

C10_Witness ==
    /\ pc = "done"
    /\ Cancelled
    /\ sample_step = Some(1)
    /\ record_settings # None
    /\ Len(simulation_states) = 4
    /\ video = "released"

\* C11 (as claimed): a control_step or sample_step that is set but not
\* positive is rejected before the loop: the run does not return normally and
\* makes no physics step, no handler call and no sample.
C11_MalformedCadenceRejected ==
    (\/ (control_step # None /\ Val(control_step) <= 0)
     \/ (sample_step # None /\ Val(sample_step) <= 0))
        => /\ nsteps = 0
           /\ handle_times = <<>>
           /\ simulation_states = <<>>
           /\ pc # "done"

\* C12 (as claimed): with control_step None the handler and the PRE_CONTROL
\* and POST_CONTROL callbacks are never invoked and the run does not raise
\* because of the control cadence: it gets past the control check of every
\* iteration.
C12_NoControlRunsToEnd ==
    control_step = None
        => /\ handle_times = <<>>
           /\ fired["PRE_CONTROL"] = 0
           /\ fired["POST_CONTROL"] = 0
           /\ error # Some("TypeError")

\* floor(simulation_time * fps), with video_step = 1 / fps.
ExpectedFrames == Val(simulation_time) \div Val(video_step)

C14_RenderIffWindowed ==
    /\ headless
          => /\ viewer.render_calls = 0
             /\ ~viewer.constructed
             /\ error # Some("UnboundLocalError")
             /\ record_settings = None => frames = 0
    /\ ~headless
          => viewer.render_calls + (IF pc = "render" THEN 1 ELSE 0) = nsteps

C14_Witness ==
    /\ pc = "done"
    /\ headless
    /\ record_settings = Some(1)
    /\ frames = 2
    /\ viewer.render_calls = 0

\* C15 (as claimed): every phase the custom viewer's update looks up is a
\* member of Callback, and a render call of a windowed run with the custom
\* viewer on an open window completes without an error.
C15_RenderLooksUpKnownPhases ==
    [][(/\ pc = "render"
        /\ ~headless
        /\ viewer_type = "CUSTOM"
        /\ viewer.is_alive
        /\ ~viewer.window_should_close
        /\ pc' # "render")
          => /\ UpdateLookups \subseteq Callback
             /\ error' = None]_vars

\* The ids of the callbacks registered for phase p.
Registered(p) == Range(callbacks[p])

\* The part of `log` that belongs to phase p.
OfPhase(log, p) == SelectSeq(log, LAMBDA e : e[1] = p)

\* C16: each phase's list of registered callbacks only grows, and each firing
\* of a phase invokes every callback registered for that phase exactly once,
\* in the order of registration (callbacks are named by registration number);
\* a phase that does not fire invokes nothing.
C16_CallbacksInRegistrationOrder ==
    [][/\ IsPrefix(invoked, invoked')
       /\ \A p \in Callback :
             LET new == OfPhase(SubSeq(invoked', Len(invoked) + 1,
                                       Len(invoked')), p)
             IN  /\ IsPrefix(callbacks[p], callbacks'[p])
                 /\ fired'[p] = fired[p] => new = <<>>
                 /\ fired'[p] # fired[p]
                       => /\ fired'[p] = fired[p] + 1
                          /\ Len(new) = Cardinality(Registered(p))
                          /\ \A c \in Registered(p) :
                                \E i \in DOMAIN new : new[i] = <<p, c>>
                          /\ \A i \in DOMAIN new : \A j \in DOMAIN new :
                                i < j => new[i][2] < new[j][2]]_vars

C16_Witness ==
    /\ pc = "done"
    /\ callbacks["PRE_STEP"] = <<1, 2>>
    /\ fired["PRE_STEP"] = 3
    /\ invoked = [i \in 1..6 |-> <<"PRE_STEP", IF i % 2 = 1 THEN 1 ELSE 2>>]

BeforeForwardPcs == {"start", "record", "callbacks_start", "forward"}

C18_InitialSampleFirst ==
    IF sample_step = None
       THEN simulation_states = <<>>
       ELSE /\ simulation_states # <<>>
                  => simulation_states[1] = [time |-> 0, kind |-> "initial"]
            /\ (handle_times # <<>> \/ nsteps > 0) => simulation_states # <<>>
            /\ pc = "done" => Len(simulation_states) >= 2

C18_Witness ==
    /\ pc = "done"
    /\ sample_step = Some(3)
    /\ control_step = Some(1)
    /\ nsteps = 3
    /\ simulation_states[1] = [time |-> 0, kind |-> "initial"]
    /\ Len(simulation_states) = 2

\* The cadence `step` is due at tick time t: floor(t / step) has grown.
Crosses(t, step) ==
    /\ step # None
    /\ t > 0
    /\ (t \div Val(step)) > ((t - simulation_timestep) \div Val(step))

\* What one full iteration at tick time t does, in order.
Iteration(t) ==
    <<"PRE_STEP">>
    \o (IF Crosses(t, control_step)
           THEN <<"PRE_CONTROL", "handle", "POST_CONTROL">> ELSE <<>>)
    \o (IF Crosses(t, sample_step) THEN <<"sample">> ELSE <<>>)
    \o <<"step">>
    \o (IF headless THEN <<>> ELSE <<"render">>)
    \o (IF record_settings # None /\ Crosses(t, video_step)
           THEN <<"frame">> ELSE <<>>)
    \o <<"POST_STEP">>

IterationPcs ==
    {"pre_step", "control", "sample", "step", "render", "video", "post_step"}

\* C19: every iteration does, in this order, the PRE_STEP callbacks, the
\* control dispatch if due, the periodic sample if due, exactly one physics
\* step, the render call if windowed, the video frame if due and the
\* POST_STEP callbacks; simulated time advances by exactly one timestep in
\* the physics step and nowhere else.
C19_IterationOrder ==
    [][/\ pc' \in IterationPcs => IsPrefix(events', Iteration(time'))
       /\ (pc = "post_step" /\ pc' = "loop") => events' = Iteration(time')
       /\ data_time' # data_time
             => /\ pc = "step"
                /\ events' = Append(events, "step")
                /\ data_time' = data_time + simulation_timestep
       /\ (pc = "step" /\ pc' = "render")
             => data_time' = data_time + simulation_timestep]_vars

C19_Witness ==
    /\ pc = "loop"
    /\ ~headless
    /\ nsteps = 3
    /\ events = <<"PRE_STEP", "PRE_CONTROL", "handle", "POST_CONTROL",
                  "sample", "step", "render", "frame", "POST_STEP">>

ControlEvents == {"PRE_CONTROL", "handle", "POST_CONTROL"}

\* C20: each control dispatch is all PRE_CONTROL callbacks, then exactly one
\* handle call, then all POST_CONTROL callbacks; the numbers of PRE_CONTROL
\* firings, handle calls and POST_CONTROL firings are equal as long as the
\* handler has not raised (a raising handler skips its POST_CONTROL).
C20_ControlDispatchOrder ==
    /\ fired["PRE_CONTROL"] = Len(handle_times)
    /\ fired["POST_CONTROL"]
          = Len(handle_times) - (IF error = Some("HandlerError") THEN 1 ELSE 0)
    /\ SelectSeq(events, LAMBDA e : e \in ControlEvents)
          \in {<<>>, <<"PRE_CONTROL", "handle", "POST_CONTROL">>,
               <<"PRE_CONTROL", "handle">>}
    /\ SelectSeq(events, LAMBDA e : e \in ControlEvents)
          = <<"PRE_CONTROL", "handle">> => error = Some("HandlerError")

C20_Witness ==
    /\ pc = "done"
    /\ fired["PRE_CONTROL"] = 3
    /\ Len(handle_times) = 3
    /\ fired["POST_CONTROL"] = 3

\* The shutdown steps of a run, in order.
Shutdown ==
    <<"END">>
    \o (IF headless THEN <<>> ELSE <<"RENDER_END">>)
    \o (IF viewer.constructed THEN <<"close_viewer">> ELSE <<>>)
    \o (IF record_settings # None THEN <<"release_video">> ELSE <<>>)
    \o (IF sample_step # None THEN <<"sample">> ELSE <<>>)

ShutdownEvents == {"END", "RENDER_END", "close_viewer", "release_video"}

\* The events since the loop condition was last evaluated are those of the
\* iteration that was cancelled (none when the time bound ended the loop)
\* followed by the shutdown steps, once each and in order.
ShutdownDone ==
    \E k \in 0..Len(events) :
        /\ SubSeq(events, k + 1, Len(events)) = Shutdown
        /\ \A i \in 1..k : events[i] \notin ShutdownEvents
        /\ k > 0 => Cancelled

\* C21: on every loop exit (time bound or cancellation) the shutdown steps run
\* once each in this order: END, RENDER_END (only if not headless), viewer
\* release (only if a viewer was opened), video writer release (only if
\* recording), final sample (only if sample_step is set).  START is fired
\* exactly once, before any other phase, and END exactly once, after the
\* last PRE_STEP and POST_STEP.
C21_ShutdownOrder ==
    [][/\ pc' = "done" => ShutdownDone' /\ fired'["END"] = 1
       /\ fired'["START"] <= 1 /\ fired'["END"] <= 1
       /\ (\E p \in Callback : fired'[p] > 0)
             => fired'["START"] = 1
       /\ fired["START"] = 0
             => \A p \in Callback \ {"START", "RENDER_START"} :
                   fired'[p] = 0
       /\ pc' = "forward" => events'[1] = "START"
       /\ fired["END"] = 1
             => /\ fired'["PRE_STEP"] = fired["PRE_STEP"]
                /\ fired'["POST_STEP"] = fired["POST_STEP"]]_vars

C21_Witness ==
    /\ pc = "done"
    /\ Cancelled
    /\ nsteps = 2
    /\ events = <<"PRE_STEP", "PRE_CONTROL", "handle", "POST_CONTROL",
                  "sample", "step", "render", "END", "RENDER_END",
                  "close_viewer", "release_video", "sample">>

\* How often e occurs in seq.
Count(seq, e) == Len(SelectSeq(seq, LAMBDA x : x = e))

\* C22: in every iteration at most one control dispatch, at most one
\* periodic sample and at most one video frame occur, also when the timestep
\* spans several periods of the cadence: a step of the program adds at most
\* one of each, an iteration holds at most one of each, and over the run
\* there are never more of them than iterations started (plus the dispatch
\* before the loop).
C22_AtMostOneFiringPerIteration ==
    [][/\ Len(handle_times') <= Len(handle_times) + 1
       /\ Len(simulation_states') <= Len(simulation_states) + 1
       /\ frames' <= frames + 1
       /\ pc' \in IterationPcs \cup {"loop"}
             => /\ Count(events', "handle") <= 1
                /\ Count(events', "sample") <= 1
                /\ Count(events', "frame") <= 1
       /\ Len(handle_times') <= fired'["PRE_STEP"] + 1
       /\ Len(Periodic(simulation_states')) <= fired'["PRE_STEP"]
       /\ frames' <= fired'["PRE_STEP"]]_vars

C22_Witness ==
    /\ Completed
    /\ simulation_timestep = 3
    /\ control_step = Some(1)
    /\ sample_step = Some(1)
    /\ record_settings = Some(1)
    /\ simulation_time = Some(6)
    /\ handle_times = <<0, 3, 6>>
    /\ Len(Periodic(simulation_states)) = 2
    /\ frames = 2

C24_PausedStartMakesNoStep ==
    (/\ ~headless
     /\ start_paused
     /\ viewer.constructed
     /\ viewer.paused
     /\ ~viewer.window_should_close)
        => nsteps = 0 /\ data_time = 0

\* C25: the sample appended as the initial result entry and the sample handed
\* to the handler by the control dispatch before the loop describe the same
\* state: both are taken at the same simulated time with no physics step
\* and no change of data.time between forward() and the dispatch, and the
\* dispatch leaves the appended entry as it is.
C25_InitialSnapshotsAgree ==
    [][/\ (pc \in {"forward", "initial_sample", "initial_control"})
             => /\ data_time' = data_time
                /\ nsteps = 0 /\ nsteps' = 0
       /\ (/\ pc = "initial_control"
           /\ pc' # "initial_control"
           /\ control_step # None
           /\ sample_step # None)
             => /\ Len(simulation_states) = 1
                /\ simulation_states' = simulation_states
                /\ handle_times' = <<simulation_states[1].time>>
                /\ data_time' = simulation_states[1].time]_vars

C25_Witness ==
    /\ pc = "loop"
    /\ nsteps = 0
    /\ handle_times = <<0>>
    /\ simulation_states = <<[time |-> 0, kind |-> "initial"]>>

\* C26 (as claimed): whenever record_settings is given, a camera_type outside
\* {free, tracking, fixed, user} is rejected before the START callbacks and
\* before any physics step; likewise a viewer_type that is neither CUSTOM nor
\* NATIVE in windowed mode.
C26_UnknownSelectorRejected ==
    (\/ /\ record_settings # None
        /\ camera_type # None
        /\ lower(Val(camera_type)) \notin CameraTypes
     \/ /\ ~headless
        /\ viewer_type \notin ViewerType)
        => /\ fired["START"] = 0
           /\ nsteps = 0
           /\ pc # "done"

\* C27: CpgPair(a, b) and CpgPair(b, a) are equal for all Cpg a, b, and every
\* constructed pair has cpg_index_lowest.index <= cpg_index_highest.index.
C27_CpgPairSymmetric ==
    pair # None
        => /\ Val(pair) = CpgPair(Val(cpg_b), Val(cpg_a))
           /\ Val(pair).cpg_index_lowest.index
                 <= Val(pair).cpg_index_highest.index

C27_Witness ==
    /\ pair # None
    /\ Val(cpg_a).index = 2
    /\ Val(cpg_b).index = 0
    /\ Val(pair).cpg_index_lowest.index = 0
    /\ Val(pair).cpg_index_highest.index = 2

\* C28 (as claimed): make_uniform_state(value) returns num_states entries
\* (twice the number of CPGs), every one of them equal to value.
C28_UniformState ==
    uniform_state # None
        => /\ Len(Val(uniform_state)) = num_states
           /\ \A i \in DOMAIN Val(uniform_state) :
                 Val(uniform_state)[i] = Val(uniform_value)

\* The step of the program dispatches control, takes a periodic sample,
\* writes a video frame.
ControlFires == pc = "control" /\ Len(handle_times') > Len(handle_times)

SampleFires ==
    pc = "sample" /\ Len(simulation_states') > Len(simulation_states)

VideoFires == pc = "video" /\ frames' > frames

FlooredTo(a, t, step) == a % step = 0 /\ a <= t /\ t < a + step

AfterControlCheck == {"sample", "step", "render", "video", "post_step"}

AfterSampleCheck == {"step", "render", "video", "post_step"}

AfterVideoCheck == {"post_step"}

C31_StatelessFiringRule ==
    [][/\ (pc = "control" /\ control_step # None)
             => (ControlFires <=> Crosses(time, control_step))
       /\ (pc = "sample" /\ sample_step # None)
             => (SampleFires <=> Crosses(time, sample_step))
       /\ (ControlFires \/ SampleFires) => time > 0]_vars

C31_Witness ==
    /\ pc = "step"
    /\ simulation_timestep = 2
    /\ control_step = Some(3)
    /\ sample_step = Some(3)
    /\ time = 6
    /\ handle_times = <<0, 4, 6>>
    /\ Len(Periodic(simulation_states)) = 2

\* C32: POST_STEP has fired as often as PRE_STEP when the loop ended by the
\* time bound and exactly once less when it ended by cancellation: the
\* cancelled iteration fired PRE_STEP and made its physics step and render
\* call but fired no POST_STEP and wrote no video frame.
C32_PreAndPostStepCounts ==
    /\ fired["POST_STEP"] <= fired["PRE_STEP"]
    /\ fired["PRE_STEP"] <= fired["POST_STEP"] + 1
    /\ pc = "done"
          => IF Cancelled
                THEN /\ fired["POST_STEP"] = fired["PRE_STEP"] - 1
                     /\ Count(events, "PRE_STEP") = 1
                     /\ Count(events, "step") = 1
                     /\ Count(events, "render") = 1
                     /\ Count(events, "POST_STEP") = 0
                     /\ Count(events, "frame") = 0
                ELSE fired["POST_STEP"] = fired["PRE_STEP"]

C32_Witness ==
    /\ pc = "done"
    /\ Cancelled
    /\ record_settings = Some(1)
    /\ fired["PRE_STEP"] = 3
    /\ fired["POST_STEP"] = 2
    /\ frames = 1

\* The entry a step of the program appended to simulation_states.
Appended == simulation_states'[Len(simulation_states')]

\* C33: in a run with sample_step and simulation_time set that is not
\* cancelled, every periodic sample is taken at a tick time <=
\* simulation_time, before that tick's physics step (the steps made so far
\* are exactly those up to the tick), and the final sample is taken after
\* the last physics step at a time strictly greater than simulation_time.
C33_SampleTimes ==
    [][/\ (SampleFires /\ simulation_time # None)
             => /\ Appended.kind = "periodic"
                /\ Appended.time = time
                /\ Appended.time <= Val(simulation_time)
                /\ Appended.time = nsteps * simulation_timestep
                /\ nsteps' = nsteps
       /\ (/\ pc = "final_sample"
           /\ pc' = "done"
           /\ sample_step # None
           /\ simulation_time # None
           /\ ~Cancelled)
             => /\ Appended.kind = "final"
                /\ Appended.time = nsteps * simulation_timestep
                /\ Appended.time > Val(simulation_time)
                /\ nsteps > 0]_vars

C33_Witness ==
    /\ Completed
    /\ simulation_timestep = 2
    /\ sample_step = Some(3)
    /\ simulation_time = Some(6)
    /\ simulation_states
          = <<[time |-> 0, kind |-> "initial"],
              [time |-> 4, kind |-> "periodic"],
              [time |-> 6, kind |-> "periodic"],
              [time |-> 8, kind |-> "final"]>>

ConfigurationErrors == {Some("ValueError"), Some("KeyError")}

\* C34: a headless run (with or without recording) with simulation_time unset
\* is accepted without a configuration error and its loop never ends: the
\* loop condition always holds, no render call is made that could report
\* the closed status, and the shutdown is never reached.
C34_HeadlessUnboundedNeverEnds ==
    [][(headless /\ simulation_time = None)
          => /\ error' \notin ConfigurationErrors
             /\ pc = "loop" => pc' = "pre_step"
             /\ viewer'.render_calls = 0
             /\ status' = None
             /\ pc' \notin ShutdownPcs]_vars

C34_Witness ==
    /\ headless
    /\ simulation_time = None
    /\ record_settings = Some(1)
    /\ pc = "loop"
    /\ nsteps = 3
    /\ frames = 2

\* C35: callbacks registered under Callback.RENDER are never invoked by
\* simulate_scene or by the custom viewer's render and update, in any mode
\* (headless, or windowed with the custom viewer).
C35_RenderPhaseNeverFired ==
    (headless \/ viewer_type = "CUSTOM")
        => /\ fired["RENDER"] = 0
           /\ OfPhase(invoked, "RENDER") = <<>>

C35_Witness ==
    /\ ~headless
    /\ viewer_type = "CUSTOM"
    /\ callbacks["RENDER"] = <<1, 2>>
    /\ viewer.render_calls = 1
    /\ Exited

\* C36 (as claimed): while the custom viewer is paused and the user has made
\* no request, its render call does not return: simulate_scene stays in the
\* call, without an error and without a further physics step.
C36_PausedRenderBlocks ==
    [][(/\ pc = "render"
        /\ ~headless
        /\ viewer_type = "CUSTOM"
        /\ viewer.is_alive
        /\ viewer.paused
        /\ ~viewer.window_should_close)
          => /\ pc' = "render"
             /\ error' = None
             /\ nsteps' = nsteps]_vars

\* The step of the program calls scene.handler.handle.
HandlerCalled == Len(handle_times') > Len(handle_times)

SamplingPcs == {"initial_sample", "sample", "final_sample"}

\* C37: a control dispatch leaves simulation_states, simulated time and the
\* sample and video anchors as they are, and the control anchor as the
\* control check that leads to the dispatch has just set it (unchanged in
\* the dispatch before the loop); simulation_states grows only at the
\* initial sample, the periodic samples in the loop and the final sample.
C37_ControlLeavesStateAlone ==
    [][/\ HandlerCalled
             => /\ simulation_states' = simulation_states
                /\ data_time' = data_time
                /\ nsteps' = nsteps
                /\ last_sample_time' = last_sample_time
                /\ last_video_time' = last_video_time
                /\ IF pc = "initial_control"
                      THEN last_control_time' = last_control_time
                      ELSE /\ pc = "control"
                           /\ last_control_time'
                                 = (time \div Val(control_step))
                                      * Val(control_step)
       /\ Len(simulation_states') > Len(simulation_states)
             => /\ pc \in SamplingPcs
                /\ Len(simulation_states') = Len(simulation_states) + 1
                /\ Appended.kind \in {"initial", "periodic", "final"}]_vars

C37_Witness ==
    /\ Completed
    /\ sample_step = Some(3)
    /\ handle_times = <<0, 1, 2>>
    /\ Len(simulation_states) = 2

\* C38 (as claimed): the matrix W returned by
\* make_connection_weights_matrix is antisymmetric, W[i][j] = -W[j][i] for
\* all i, j (hence a zero diagonal), also when connections holds a CpgPair
\* whose two CPGs have the same index.
C38_WeightMatrixAntisymmetric ==
    weight_matrix # None
        => \A i \in DOMAIN Val(weight_matrix) :
              \A j \in DOMAIN Val(weight_matrix) :
                 Val(weight_matrix)[i][j] = 0 - Val(weight_matrix)[j][i]

====
